---- MODULE Spec2Model ----
(***************************************************************************)
(* Calculator learning-demo server over STDIO.                             *)
(*                                                                         *)
(* Two front-ends of the repository are modelled:                          *)
(*   - the hand-rolled newline-delimited JSON-RPC server                   *)
(*     (src/src/server-stdio.js): specification Spec;                      *)
(*   - the calculation tools of the SDK-based server (src/src/server.ts):  *)
(*     specification SpecSdk.                                              *)
(*                                                                         *)
(* Node.js scheduling: every event callback ('data', 'end', a signal, a    *)
(* timer) runs to completion and the promise microtasks it queued run      *)
(* right after it, before the next event.  An action of the model is one   *)
(* such event together with its microtasks.                                *)
(***************************************************************************)
EXTENDS Integers, Sequences, FiniteSets, TLC

VARIABLES
    calculationHistory, \* server-stdio.js: Map id -> entry, in insertion order
    requestCount,       \* server-stdio.js: let requestCount
    stdout,             \* the envelopes written to process.stdout, in order
    stderr,             \* the logger's lines (console.error), in order
    requests,           \* every message handed to handleRequest: its id and method,
                        \* the timer its handler waits on (wait), whether it was
                        \* answered (done), the history entries it created
    input,              \* the complete lines stdin has delivered so far, in order
    exited,             \* process.exit was called
    exitCode,           \* its argument
    sdkHistory,         \* server.ts: Map id -> entry, in insertion order
    sdkRequestCount,    \* server.ts: let requestCount
    sdkPending,         \* server.ts: calculate calls suspended in their stream waits
    sdkCalls,           \* server.ts: outcome of every tool call made so far
    appended,           \* entries created by the SDK handlers so far, in order
    sdkClock,           \* server.ts: the clock (new Date()) at the last entry created
    sdkListing,         \* server.ts: <<uris>> of the resource listing made since the
                        \* last tool call, <<>> if none was made
    sdkRead,            \* server.ts: <<[id, found]>> of the history read made since
                        \* the last tool call, <<>> if none was made
    stream,             \* the characters stdin has still to deliver
    chunks,             \* the 'data' chunks delivered so far, character by character
    buffer,             \* server-stdio.js: let buffer (main)
    dispatched,         \* the trimmed lines handed to JSON.parse so far, in order
    connected,          \* client.ts: CalculatorClient.connected
    retryCount,         \* client.ts: CalculatorClient.retryCount
    clientPc,           \* client.ts: where connect stands: "idle" (not running),
                        \* "attempt" (in await this.client.connect), "delay" (in
                        \* the setTimeout of the catch block)
    connectCalls,       \* client.ts: calls of connect made so far
    clientLog           \* client.ts: what the calls of connect did, in order

stdioVars == <<calculationHistory, requestCount, stdout, stderr, requests,
               input, exited, exitCode>>
sdkVars == <<sdkHistory, sdkRequestCount, sdkPending, sdkCalls, appended,
             sdkClock, sdkListing, sdkRead>>
framerVars == <<stream, chunks, buffer, dispatched>>
clientVars == <<connected, retryCount, clientPc, connectCalls, clientLog>>
vars == <<calculationHistory, requestCount, stdout, stderr, requests,
          input, exited, exitCode,
          sdkHistory, sdkRequestCount, sdkPending, sdkCalls, appended,
          sdkClock, sdkListing, sdkRead,
          stream, chunks, buffer, dispatched,
          connected, retryCount, clientPc, connectCalls, clientLog>>

---------------------------------------------------------------------------
(* Bounds of the model *)

\* complete input lines the peer sends before it stops
MaxLines == 2
\* request ids the peer uses: 1..MaxRequestId
MaxRequestId == 2
\* Math.random outcomes: the first id of a run of draws is 0..MaxSeed
MaxSeed == 1
\* tool calls made to the SDK server
MaxSdkCalls == 2
\* milliseconds that pass between two tool calls of the SDK server, in all
MaxClock == 1
\* characters of the input whose framing is followed character by character
MaxBytes == 4
\* calls of connect made on one client
MaxConnectCalls == 3
\* the largest finite number (Number.MAX_VALUE), scaled down: a result beyond
\* it is Infinity, as a double's is
MAX_VALUE == 1000

(* Program constants *)

\* LIMITS.maxHistorySize
maxHistorySize == 50
\* LIMITS.maxBatchSize
maxBatchSize == 100
\* EXIT_CODES
HISTORY_DISPLAY_LIMIT == 50
EXIT_SUCCESS == 0
EXIT_DATA_ERROR == 65
EXIT_SOFTWARE_ERROR == 70
\* the JSON-RPC error code server-stdio.js sends
INTERNAL_ERROR == -32603
\* factorial's upper limit
FactorialLimit == 170

---------------------------------------------------------------------------
(* Numbers.  A JavaScript number is modelled as an exact rational           *)
(* <<numerator, denominator>> in lowest terms; the operands the peer sends  *)
(* are integers.                                                            *)

RECURSIVE Gcd(_, _)
Gcd(x, y) == IF y = 0 THEN x ELSE Gcd(y, x % y)

Abs(x) == IF x < 0 THEN -x ELSE x

\* Infinity and -Infinity, the results that left the range
Infinity == <<1, 0>>
MinusInfinity == <<-1, 0>>

\* the number an arithmetic operator yields for the exact result n
Num(n) ==
    IF n > MAX_VALUE THEN Infinity
    ELSE IF n < -MAX_VALUE THEN MinusInfinity
    ELSE <<n, 1>>

\* a / b for b # 0
Quotient(a, b) ==
    LET g == Gcd(Abs(a), Abs(b))
        s == IF b < 0 THEN -1 ELSE 1
    IN  <<s * (a \div g), s * (b \div g)>>

\* outcome of a computation that may throw
Ok(v) == [ok |-> TRUE, value |-> v, error |-> ""]
Throw(m) == [ok |-> FALSE, value |-> Num(0), error |-> m]

Has(rec, f) == f \in DOMAIN rec

---------------------------------------------------------------------------
(* types.ts: utility functions *)

RECURSIVE Product(_, _)
\* result = 1; for (i = lo; i <= n; i++) result *= i
Product(lo, n) == IF lo > n THEN 1 ELSE lo * Product(lo + 1, n)

factorial(n) ==
    IF n < 0 THEN Throw("Factorial is not defined for negative numbers")
    ELSE IF n = 0 \/ n = 1 THEN Ok(Num(1))
    ELSE IF n > FactorialLimit THEN Throw("Factorial too large")
    ELSE Ok(Num(Product(2, n)))

combinations(n, k) ==
    IF k > n THEN Ok(Num(0))
    ELSE IF k = 0 \/ k = n THEN Ok(Num(1))
    ELSE LET fn == factorial(n)
             fk == factorial(k)
             fd == factorial(n - k)
         IN  IF ~fn.ok THEN fn
             ELSE IF ~fk.ok THEN fk
             ELSE IF ~fd.ok THEN fd
             ELSE Ok(Quotient(fn.value[1], fk.value[1] * fd.value[1]))

permutations(n, k) ==
    IF k > n THEN Ok(Num(0))
    ELSE LET fn == factorial(n)
             fd == factorial(n - k)
         IN  IF ~fn.ok THEN fn
             ELSE IF ~fd.ok THEN fd
             ELSE Ok(Quotient(fn.value[1], fd.value[1]))

\* An optional number (k, base, input_2): <<>> is undefined, <<x>> is x.
Opt(rec, f) == IF Has(rec, f) THEN <<rec[f]>> ELSE <<>>

\* formatExpression: the template and the values put into it (b is optional)
formatExpression(operation, a, b, result) ==
    CASE operation = "add" -> <<a, "+", b[1], "=", result>>
      [] operation = "subtract" -> <<a, "-", b[1], "=", result>>
      [] operation = "multiply" -> <<a, "x", b[1], "=", result>>
      [] operation = "divide" -> <<a, "/", b[1], "=", result>>
      [] operation = "factorial" -> <<a, "!", "=", result>>
      [] operation = "log" ->
            IF b # <<>> /\ b # <<0>> THEN <<"log", b, a, "=", result>>
            ELSE <<"ln", a, "=", result>>
      [] operation = "combinations" -> <<"C", a, b, "=", result>>
      [] operation = "permutations" -> <<"P", a, b, "=", result>>
      [] OTHER -> <<operation, a, b, "=", result>>

\* Math.random(): the digits of a draw after "0." are `lead` (the first five)
\* followed by `tail`.  A run of draws made by one event is taken from the
\* family rnd = [seed, stride, lead]: the i-th draw has tail seed + stride*(i-1).
Draw(rnd, i) == [lead |-> rnd.lead, tail |-> rnd.seed + rnd.stride * (i - 1)]

RandomRuns ==
    {[seed |-> s, stride |-> 1, lead |-> l] : s \in 0..MaxSeed, l \in {0, 1}}
    \cup {[seed |-> 0, stride |-> 0, lead |-> 0]}

\* Math.random().toString(36).substring(7): "0." and the first five digits
\* are cut off, what follows is the id.  Tail 0 stands for a draw with no
\* digit after the fifth: its id is the empty string.
RandomId(draw) == draw.tail

createHistoryEntry(operation, a, b, result, draw) ==
    [id |-> RandomId(draw),
     operation |-> operation,
     input_1 |-> a,
     input_2 |-> b,
     result |-> result,
     expression |-> formatExpression(operation, a, b, result)]

---------------------------------------------------------------------------
(* A JavaScript Map keyed by entry id, as the sequence of its values in    *)
(* insertion order.                                                        *)

MapHas(m, key) == \E i \in 1..Len(m) : m[i].id = key

MapGet(m, key) == m[CHOOSE i \in 1..Len(m) : m[i].id = key]

\* Map.prototype.set: an existing key keeps its place and takes the new value
MapSet(m, entry) ==
    IF MapHas(m, entry.id)
    THEN LET i == CHOOSE j \in 1..Len(m) : m[j].id = entry.id
         IN  SubSeq(m, 1, i - 1) \o <<entry>> \o SubSeq(m, i + 1, Len(m))
    ELSE Append(m, entry)

\* Map.prototype.delete
MapDelete(m, key) == SelectSeq(m, LAMBDA e : e.id # key)

MapKeys(m) == {m[i].id : i \in 1..Len(m)}

\* if (oldestKey): a key is truthy unless it is the empty string
TruthyKey(key) == key # 0

---------------------------------------------------------------------------
(* server-stdio.js: output *)

\* sendProgressNotification writing a notification that has an id of its own
sendProgressNotificationWithId(out, req, relatedRequestId, percentage) ==
    Append(out, [kind |-> "progress", req |-> req, id |-> relatedRequestId,
                 relatedRequestId |-> relatedRequestId, pct |-> percentage])

\* sendProgressNotification; `req` (here and below) is not on the wire: it is
\* the position in `requests` of the request whose handler made the write
sendProgressNotification(out, req, relatedRequestId, percentage) ==
    Append(out, [kind |-> "progress", req |-> req,
                 relatedRequestId |-> relatedRequestId, pct |-> percentage])

sendResponse(out, req, id, result) ==
    Append(out, [kind |-> "response", req |-> req, id |-> id, result |-> result])

sendError(out, req, id, code, message) ==
    Append(out, [kind |-> "error", req |-> req, id |-> id,
                 code |-> code, message |-> message])

\* The text of one process.stdout.write, piece by piece: a piece is the
\* newline (eol) or a JSON text.

\* JSON.stringify(envelope): one text that holds no newline, a newline inside
\* a string being written as backslash and n
stringify(envelope) == <<[eol |-> FALSE, json |-> envelope]>>

\* a write of the JSON text alone, without the newline
writeUnterminated(envelope) == stringify(envelope)

\* process.stdout.write(JSON.stringify(envelope) + '\n')
write(envelope) == stringify(envelope) \o <<[eol |-> TRUE]>>

---------------------------------------------------------------------------
(* server-stdio.js: tool handlers.  A handler works on the record           *)
(*   s = [hist, rc, out, err, reqs, micro, used, exited, exitCode]          *)
(* of what the running event callback has done so far: the history Map,    *)
(* requestCount, stdout, stderr, the requests, the queue of promise         *)
(* continuations, the number of Math.random draws used, and the exit.       *)

\* handleCalculate / handleBatchCalculate: switch (op)
calculateSwitch(op, a, b) ==
    CASE op = "add" -> Ok(Num(a + b))
      [] op = "subtract" -> Ok(Num(a - b))
      [] op = "multiply" -> Ok(Num(a * b))
      [] op = "divide" -> IF b = 0 THEN Throw("Division by zero") ELSE Ok(Quotient(a, b))
      [] OTHER -> Throw("Unknown operation")

\* handleCalculate after its waits: the calculation and the history insert.
\* Gives [hist, outcome, used].
handleCalculateBody(hist, params, rnd, used) ==
    LET r == calculateSwitch(params.op, params.a, params.b)
        historyEntry == createHistoryEntry(params.op, params.a, <<params.b>>, r.value,
                                           Draw(rnd, used + 1))
    IN  IF r.ok
        THEN [hist |-> MapSet(hist, historyEntry),
              outcome |-> Ok([value |-> r.value, calculationId |-> historyEntry.id]),
              used |-> used + 1]
        ELSE [hist |-> hist, outcome |-> Throw(r.error), used |-> used]

\* batchItem with a catch block that pushes nothing
batchItemDropsFailure(acc, calc, rnd) ==
    LET r == calculateSwitch(calc.op, calc.a, calc.b)
        historyEntry == createHistoryEntry(calc.op, calc.a, <<calc.b>>, r.value,
                                           Draw(rnd, acc.used + 1))
    IN  IF r.ok
        THEN [hist |-> MapSet(acc.hist, historyEntry),
              results |-> Append(acc.results,
                                 [success |-> TRUE,
                                  expression |-> historyEntry.expression,
                                  value |-> r.value,
                                  calculationId |-> historyEntry.id]),
              used |-> acc.used + 1]
        ELSE acc

\* handleBatchCalculate: one turn of for (const calc of calculations),
\* acc = [hist, results, used]
batchItem(acc, calc, rnd) ==
    LET r == calculateSwitch(calc.op, calc.a, calc.b)
        historyEntry == createHistoryEntry(calc.op, calc.a, <<calc.b>>, r.value,
                                           Draw(rnd, acc.used + 1))
    IN  IF r.ok
        THEN [hist |-> MapSet(acc.hist, historyEntry),
              results |-> Append(acc.results,
                                 [success |-> TRUE,
                                  expression |-> historyEntry.expression,
                                  value |-> r.value,
                                  calculationId |-> historyEntry.id]),
              used |-> acc.used + 1]
        ELSE [hist |-> acc.hist,
              results |-> Append(acc.results,
                                 [success |-> FALSE,
                                  expression |-> <<calc.a, calc.op, calc.b>>,
                                  error |-> r.error]),
              used |-> acc.used]

\* x evaluated first, then F applied to its value (sequencing of two steps)
Then(x, F(_)) == CHOOSE y \in {F(v) : v \in {x}} : TRUE

RECURSIVE batchLoop(_, _, _, _, _)
\* for (const calc of calculations): the turns lo..hi in order, the first
\* half and then the second
batchLoop(acc, calculations, lo, hi, rnd) ==
    IF lo > hi THEN acc
    ELSE IF lo = hi THEN batchItem(acc, calculations[lo], rnd)
    ELSE LET mid == (lo + hi) \div 2
         IN  Then(batchLoop(acc, calculations, lo, mid, rnd),
                  LAMBDA left : batchLoop(left, calculations, mid + 1, hi, rnd))

\* handleBatchCalculate without the try/catch around an item: the first
\* failing item's exception leaves the handler
handleBatchCalculateNoCatch(hist, params, rnd, used) ==
    IF ~Has(params, "calculations")
    THEN [hist |-> hist, outcome |-> Throw("calculations is not iterable"), used |-> used]
    ELSE LET acc == batchLoop([hist |-> hist, results |-> <<>>, used |-> used],
                              params.calculations, 1, Len(params.calculations), rnd)
             failed == {i \in 1..Len(acc.results) : ~acc.results[i].success}
         IN  [hist |-> acc.hist,
              outcome |-> IF failed = {} THEN Ok([results |-> acc.results])
                          ELSE Throw(acc.results[CHOOSE i \in failed :
                                                   \A j \in failed : i <= j].error),
              used |-> acc.used]

\* handleBatchCalculate.  Gives [hist, outcome, used].
handleBatchCalculate(hist, params, rnd, used) ==
    IF ~Has(params, "calculations")
    THEN [hist |-> hist, outcome |-> Throw("calculations is not iterable"), used |-> used]
    ELSE LET acc == batchLoop([hist |-> hist, results |-> <<>>, used |-> used],
                              params.calculations, 1, Len(params.calculations), rnd)
         IN  [hist |-> acc.hist, outcome |-> Ok([results |-> acc.results]),
              used |-> acc.used]

\* handleAdvancedCalculate: switch (operation)
advancedSwitch(params) ==
    LET n == params.n
    IN  CASE params.operation = "factorial" -> factorial(n)
          [] params.operation = "log" ->
                IF Has(params, "base") /\ params.base # 0
                THEN Ok(<<"log", params.base, n>>)
                ELSE Ok(<<"ln", n>>)
          [] params.operation = "combinations" ->
                IF ~Has(params, "k") THEN Throw("k is required for combinations")
                ELSE combinations(n, params.k)
          [] params.operation = "permutations" ->
                IF ~Has(params, "k") THEN Throw("k is required for permutations")
                ELSE permutations(n, params.k)
          [] OTHER -> Throw("Unknown operation")

\* handleAdvancedCalculate that makes its history entry whether or not the
\* operation succeeded
handleAdvancedCalculateAlwaysStores(hist, params, rnd, used) ==
    LET r == advancedSwitch(params)
        historyEntry == createHistoryEntry(params.operation, params.n, Opt(params, "k"),
                                           r.value, Draw(rnd, used + 1))
    IN  [hist |-> MapSet(hist, historyEntry),
         outcome |-> IF r.ok
                     THEN Ok([value |-> r.value, calculationId |-> historyEntry.id])
                     ELSE Throw(r.error),
         used |-> used + 1]

\* handleAdvancedCalculate.  Gives [hist, outcome, used].
handleAdvancedCalculate(hist, params, rnd, used) ==
    LET r == advancedSwitch(params)
        historyEntry == createHistoryEntry(params.operation, params.n, Opt(params, "k"),
                                           r.value, Draw(rnd, used + 1))
    IN  IF r.ok
        THEN [hist |-> MapSet(hist, historyEntry),
              outcome |-> Ok([value |-> r.value, calculationId |-> historyEntry.id]),
              used |-> used + 1]
        ELSE [hist |-> hist, outcome |-> Throw(r.error), used |-> used]

\* calculate with stream: the percentages written before each wait
CalculateProgress == <<10, 50, 90>>

\* handleDemoProgress with the loop bound i <= 4
DemoProgressFourSteps == [i \in 1..4 |-> i * 20]

\* demo_progress: i * 20 for i = 1..5
DemoProgress == [i \in 1..5 |-> i * 20]

---------------------------------------------------------------------------
(* server-stdio.js: handleRequest *)

\* A URI is the sequence of its parts between '/' (uri.split('/')).
UriConstants == <<"calculator:", "", "constants">>
UriStats == <<"calculator:", "", "stats">>
UriFormulas == <<"formulas:", "", "library">>
UriHistoryPrefix == <<"calculator:", "", "history">>

\* s.startsWith(prefix + '/')
UriStartsWith(uri, prefix) ==
    /\ Len(uri) > Len(prefix)
    /\ \A i \in 1..Len(prefix) : uri[i] = prefix[i]

UriIs(uri, lit) == Len(uri) = Len(lit) /\ \A i \in 1..Len(lit) : uri[i] = lit[i]

\* case 'read_resource'
readResource(hist, rc, message) ==
    IF ~Has(message, "params") THEN Throw("Cannot read properties of undefined")
    ELSE IF ~Has(message.params, "uri") THEN Throw("Unknown resource")
    ELSE LET uri == message.params.uri
         IN  IF UriIs(uri, UriConstants) THEN Ok("MATH_CONSTANTS")
             ELSE IF UriIs(uri, UriStats) THEN Ok([requestCount |-> rc])
             ELSE IF UriIs(uri, UriFormulas) THEN Ok("FORMULAS_LIBRARY")
             ELSE IF UriStartsWith(uri, UriHistoryPrefix)
             THEN LET calcId == uri[Len(uri)]
                  IN  IF MapHas(hist, calcId) THEN Ok(MapGet(hist, calcId))
                      ELSE Throw("Calculation not found")
             ELSE Throw("Unknown resource")

PlaceholderTools == {"solve_math_problem", "explain_formula", "calculator_assistant"}
Prompts == {"explain-calculation", "generate-problems", "calculator-tutor"}

\* respond with a catch block that gives up after it has sent the error
respondFatal(s, k, outcome) ==
    LET id == s.reqs[k].id
    IN  IF outcome.ok
        THEN [s EXCEPT !.out = sendResponse(@, k, id, outcome.value),
                       !.reqs[k].done = TRUE]
        ELSE [s EXCEPT !.out = sendError(@, k, id, INTERNAL_ERROR,
                                         IF outcome.error = "" THEN "Internal error"
                                         ELSE outcome.error),
                       !.reqs[k].done = TRUE,
                       !.exited = TRUE,
                       !.exitCode = EXIT_SOFTWARE_ERROR]

\* respond in a dispatcher that keeps responses in arrival order: the
\* response is held back while an earlier request is unanswered
respondInArrivalOrder(s, k, outcome) ==
    IF \E j \in 1..(k - 1) : ~s.reqs[j].done THEN s
    ELSE [s EXCEPT
            !.out = IF outcome.ok THEN sendResponse(@, k, s.reqs[k].id, outcome.value)
                    ELSE sendError(@, k, s.reqs[k].id, INTERNAL_ERROR,
                                   IF outcome.error = "" THEN "Internal error"
                                   ELSE outcome.error),
            !.reqs[k].done = TRUE]

\* respond in a dispatcher that empties the history when it answers with an
\* error
respondErrorClearsHistory(s, k, outcome) ==
    IF outcome.ok
    THEN [s EXCEPT !.out = sendResponse(@, k, s.reqs[k].id, outcome.value),
                   !.reqs[k].done = TRUE]
    ELSE [s EXCEPT !.out = sendError(@, k, s.reqs[k].id, INTERNAL_ERROR,
                                     IF outcome.error = "" THEN "Internal error"
                                     ELSE outcome.error),
                   !.hist = <<>>,
                   !.reqs[k].done = TRUE]

\* respond in a dispatcher without a catch block: the exception leaves
\* handleRequest as a rejected promise nobody awaits
respondRethrows(s, k, outcome) ==
    IF outcome.ok
    THEN [s EXCEPT !.out = sendResponse(@, k, s.reqs[k].id, outcome.value),
                   !.reqs[k].done = TRUE]
    ELSE [s EXCEPT !.err = Append(@, "Unhandled rejection"),
                   !.exited = TRUE, !.exitCode = EXIT_SOFTWARE_ERROR]

\* What handleRequest does once an outcome is there: sendResponse(id, result),
\* or the catch: sendError(id, -32603, error.message || 'Internal error')
respond(s, k, outcome) ==
    LET id == s.reqs[k].id
    IN  [s EXCEPT
           !.out = IF outcome.ok THEN sendResponse(@, k, id, outcome.value)
                   ELSE sendError(@, k, id, INTERNAL_ERROR,
                                  IF outcome.error = "" THEN "Internal error"
                                  ELSE outcome.error),
           !.reqs[k].done = TRUE]

\* `await handler(...)`: the rest of handleRequest is queued as a microtask
defer(s, k, r) ==
    [s EXCEPT !.hist = r.hist, !.used = r.used,
              !.reqs[k].created = r.used - s.used,
              !.micro = Append(@, [req |-> k, outcome |-> r.outcome])]

\* suspend in a handleRequest that does not await the handler: the response
\* is written as soon as the handler has suspended
suspendNoAwait(s, k, pct) ==
    LET t == [s EXCEPT !.out = sendProgressNotification(@, k, s.reqs[k].id, pct),
                       !.reqs[k].wait = 1]
    IN  [t EXCEPT !.out = sendResponse(@, k, t.reqs[k].id, "pending")]

\* the handler suspends in `await new Promise(resolve => setTimeout(...))`
\* after writing its first progress notification
suspend(s, k, pct) ==
    [s EXCEPT !.out = sendProgressNotification(@, k, s.reqs[k].id, pct),
              !.reqs[k].wait = 1]

streamRequested(params) == Has(params, "stream") /\ params.stream

\* handleRequest, up to its first suspension
handleRequest(s, message, rnd) ==
    LET k == Len(s.reqs) + 1
        method == message.method
        s1 == [s EXCEPT !.rc = @ + 1,
                        !.reqs = Append(@, [id |-> message.id, method |-> method,
                                            message |-> message, wait |-> 0,
                                            done |-> FALSE, created |-> 0])]
        noParams == [hist |-> s1.hist, used |-> s1.used,
                     outcome |-> Throw("Cannot destructure property of undefined")]
    IN  CASE method = "calculate" ->
                IF ~Has(message, "params") THEN defer(s1, k, noParams)
                ELSE IF streamRequested(message.params)
                THEN suspend(s1, k, CalculateProgress[1])
                ELSE defer(s1, k, handleCalculateBody(s1.hist, message.params, rnd, s1.used))
          [] method = "batch_calculate" ->
                IF ~Has(message, "params") THEN defer(s1, k, noParams)
                ELSE defer(s1, k, handleBatchCalculate(s1.hist, message.params, rnd, s1.used))
          [] method = "advanced_calculate" ->
                IF ~Has(message, "params") THEN defer(s1, k, noParams)
                ELSE defer(s1, k, handleAdvancedCalculate(s1.hist, message.params, rnd, s1.used))
          [] method = "demo_progress" -> suspend(s1, k, DemoProgress[1])
          [] method \in PlaceholderTools -> respond(s1, k, Ok("Tool called"))
          [] method = "read_resource" -> respond(s1, k, readResource(s1.hist, s1.rc, message))
          [] method \in Prompts -> respond(s1, k, Ok("Generated prompt"))
          [] OTHER -> respond(s1, k, Throw("Unknown method"))

\* a timer of request k fires: its handler goes on to its next suspension or
\* to its end, and then handleRequest responds
timerFired(s, k, rnd) ==
    LET r == s.reqs[k]
        w == r.wait
    IN  IF r.method = "calculate"
        THEN IF w < Len(CalculateProgress)
             THEN [s EXCEPT !.out = sendProgressNotification(@, k, r.id, CalculateProgress[w + 1]),
                            !.reqs[k].wait = w + 1]
             ELSE LET b == handleCalculateBody(s.hist, r.message.params, rnd, s.used)
                  IN  respond([s EXCEPT !.hist = b.hist, !.used = b.used,
                                        !.reqs[k].wait = 0,
                                        !.reqs[k].created = b.used - s.used],
                              k, b.outcome)
        ELSE IF w < Len(DemoProgress)
             THEN [s EXCEPT !.out = sendProgressNotification(@, k, r.id, DemoProgress[w + 1]),
                            !.reqs[k].wait = w + 1]
             ELSE respond([s EXCEPT !.reqs[k].wait = 0], k,
                          Ok([message |-> "Progress demonstration completed",
                              progressSteps |-> DemoProgress]))

---------------------------------------------------------------------------
(* server-stdio.js: main *)

\* exit with a process.exit(0) on every path
exitSuccess(s, logLine, code) ==
    [s EXCEPT !.err = Append(@, logLine), !.exited = TRUE, !.exitCode = EXIT_SUCCESS]

\* process.exit(code), after the logger line that precedes it
exit(s, logLine, code) ==
    [s EXCEPT !.err = Append(@, logLine), !.exited = TRUE, !.exitCode = code]

\* JSON.parse(trimmed)
JsonParse(line) == IF line.json THEN Ok(line.msg) ELSE Throw("Unexpected token")

\* method is truthy
Truthy(msg, f) == Has(msg, f) /\ msg[f] # ""

\* dataLine that acknowledges a notification with a result envelope
dataLineAnswersNotifications(s, line, rnd) ==
    IF s.exited \/ line.blank THEN s
    ELSE LET parsed == JsonParse(line)
             message == parsed.value
         IN  IF ~parsed.ok
             THEN exit(s, "Failed to parse message", EXIT_DATA_ERROR)
             ELSE IF ~Has(message, "jsonrpc") \/ message.jsonrpc # "2.0"
             THEN exit(s, "Failed to parse message", EXIT_DATA_ERROR)
             ELSE IF Truthy(message, "method") /\ Has(message, "id")
             THEN handleRequest(s, message, rnd)
             ELSE IF Truthy(message, "method")
             THEN [s EXCEPT !.err = Append(@, "Received notification"),
                            !.out = sendResponse(@, 0, 0, "ok")]
             ELSE s

\* dataLine with a catch block that answers the line with an error and goes on
dataLineLenient(s, line, rnd) ==
    IF s.exited \/ line.blank THEN s
    ELSE LET parsed == JsonParse(line)
             message == parsed.value
             rejected == [s EXCEPT !.err = Append(@, "Failed to parse message"),
                                   !.out = sendError(@, 0, 0, INTERNAL_ERROR, "Parse error")]
         IN  IF ~parsed.ok THEN rejected
             ELSE IF ~Has(message, "jsonrpc") \/ message.jsonrpc # "2.0" THEN rejected
             ELSE IF Truthy(message, "method") /\ Has(message, "id")
             THEN handleRequest(s, message, rnd)
             ELSE IF Truthy(message, "method")
             THEN [s EXCEPT !.err = Append(@, "Received notification")]
             ELSE s

\* one turn of for (const line of lines) in the 'data' handler
dataLine(s, line, rnd) ==
    IF s.exited \/ line.blank THEN s
    ELSE LET parsed == JsonParse(line)
             message == parsed.value
         IN  IF ~parsed.ok THEN exit(s, "Failed to parse message", EXIT_DATA_ERROR)
             ELSE IF ~Has(message, "jsonrpc") \/ message.jsonrpc # "2.0"
             THEN exit(s, "Failed to parse message", EXIT_DATA_ERROR)
             ELSE IF Truthy(message, "method") /\ Has(message, "id")
             THEN handleRequest(s, message, rnd)
             ELSE IF Truthy(message, "method")
             THEN [s EXCEPT !.err = Append(@, "Received notification")]
             ELSE s

RECURSIVE dataLoop(_, _, _, _)
dataLoop(s, lines, i, rnd) ==
    IF i > Len(lines) THEN s
    ELSE dataLoop(dataLine(s, lines[i], rnd), lines, i + 1, rnd)

RECURSIVE runMicrotasks(_)
\* the promise continuations queued by the callback run in queue order,
\* unless the process has exited
runMicrotasks(s) ==
    IF s.exited \/ s.micro = <<>> THEN s
    ELSE runMicrotasks(respond([s EXCEPT !.micro = Tail(@)],
                               Head(s.micro).req, Head(s.micro).outcome))

Current ==
    [hist |-> calculationHistory, rc |-> requestCount, out |-> stdout, err |-> stderr,
     reqs |-> requests, micro |-> <<>>, used |-> 0,
     exited |-> exited, exitCode |-> exitCode]

Becomes(s) ==
    /\ calculationHistory' = s.hist
    /\ requestCount' = s.rc
    /\ stdout' = s.out
    /\ stderr' = s.err
    /\ requests' = s.reqs
    /\ exited' = s.exited
    /\ exitCode' = s.exitCode

---------------------------------------------------------------------------
(* The peer's input: complete lines, as their text is seen by trim() and    *)
(* JSON.parse.                                                              *)

BlankLine == [blank |-> TRUE, json |-> FALSE]
GarbageLine == [blank |-> FALSE, json |-> FALSE]
JsonLine(msg) == [blank |-> FALSE, json |-> TRUE, msg |-> msg]

Calc(a, op, b) == [a |-> a, b |-> b, op |-> op]

CalculateParams ==
    {Calc(6, "add", 3), Calc(6, "divide", 0), Calc(1, "divide", 2), Calc(2, "power", 3),
     Calc(MAX_VALUE, "multiply", 2),
     [a |-> 6, b |-> 3, op |-> "add", stream |-> TRUE],
     [a |-> 6, b |-> 0, op |-> "divide", stream |-> TRUE]}

\* Array(n).fill(null).map((_, i) => ({ a: i, b: 1, op: 'add' }))
Adds(n) == SubSeq([i \in 1..n |-> Calc(i - 1, "add", 1)], 1, n)

MixedBatch == <<Calc(1, "add", 2), Calc(6, "divide", 0), Calc(3, "multiply", 4),
                Calc(6, "subtract", 3)>>
FailingBatch == <<Calc(6, "divide", 0), Calc(1, "divide", 0)>>

BatchParams ==
    {[calculations |-> <<>>], [calculations |-> MixedBatch],
     [calculations |-> FailingBatch], [calculations |-> Adds(maxBatchSize + 1)]}

AdvancedParams ==
    {[operation |-> "factorial", n |-> 3], [operation |-> "factorial", n |-> -1],
     [operation |-> "combinations", n |-> 3],
     [operation |-> "permutations", n |-> 3, k |-> 2],
     [operation |-> "log", n |-> 8, base |-> 2]}

ResourceParams ==
    {[uri |-> UriConstants], [uri |-> UriStats], [uri |-> UriFormulas],
     [uri |-> <<"calculator:", "", "nothing">>]}
    \cup {[uri |-> Append(UriHistoryPrefix, h)] : h \in 0..MaxSeed}

Call(id, method, params) ==
    [jsonrpc |-> "2.0", id |-> id, method |-> method, params |-> params]

RequestIds == 1..MaxRequestId

RequestMessages ==
    UNION {
        {Call(id, "calculate", p) : p \in CalculateParams}
        \cup {Call(id, "batch_calculate", p) : p \in BatchParams}
        \cup {Call(id, "advanced_calculate", p) : p \in AdvancedParams}
        \cup {Call(id, "read_resource", p) : p \in ResourceParams}
        \cup {[jsonrpc |-> "2.0", id |-> id, method |-> "calculate"],
              Call(id, "demo_progress", [x \in {} |-> 0]),
              Call(id, "solve_math_problem", [problem |-> "2+2"]),
              Call(id, "explain-calculation", [expression |-> "2+2"]),
              Call(id, "no_such_method", [x \in {} |-> 0])}
        : id \in RequestIds}

OtherMessages ==
    {[jsonrpc |-> "1.0", id |-> 1, method |-> "calculate", params |-> Calc(6, "add", 3)],
     [jsonrpc |-> "2.0", method |-> "initialized"],
     [jsonrpc |-> "2.0", id |-> 1, result |-> "stray"],
     [jsonrpc |-> "2.0", id |-> 1, method |-> ""]}

Lines ==
    {BlankLine, GarbageLine} \cup {JsonLine(m) : m \in RequestMessages \cup OtherMessages}

\* the complete lines one 'data' chunk can bring
Chunks(n) == UNION {[1..k -> Lines] : k \in 1..n}

---------------------------------------------------------------------------
(* The newline-delimited server as a state machine *)

InitStdio ==
    /\ calculationHistory = <<>>
    /\ requestCount = 0
    /\ stdout = <<>>
    /\ stderr = <<>>
    /\ requests = <<>>
    /\ input = <<>>
    /\ exited = FALSE
    /\ exitCode = 0

InitSdk ==
    /\ sdkHistory = <<>>
    /\ sdkRequestCount = 0
    /\ sdkPending = <<>>
    /\ sdkCalls = <<>>
    /\ appended = <<>>
    /\ sdkClock = 0
    /\ sdkListing = <<>>
    /\ sdkRead = <<>>

\* the characters of the input: a letter of a message, a letter no JSON text
\* holds, a blank and the newline
Characters == {"a", "x", " ", "\n"}

Streams == UNION {[1..n -> Characters] : n \in 0..MaxBytes}

\* main: let buffer = '', nothing read yet
InitFramer ==
    /\ stream \in Streams
    /\ chunks = <<>>
    /\ buffer = <<>>
    /\ dispatched = <<>>

\* new CalculatorClient()
InitClient ==
    /\ connected = FALSE
    /\ retryCount = 0
    /\ clientPc = "idle"
    /\ connectCalls = 0
    /\ clientLog = <<>>

\* the servers seen message by message: stdin delivers whole lines
Init == InitStdio /\ InitSdk /\ InitFramer /\ stream = <<>> /\ InitClient

\* the newline-delimited server seen character by character
InitStream == InitStdio /\ InitSdk /\ InitFramer /\ InitClient

\* main has not got past its start: nothing was read or logged yet
Starting == ~exited /\ input = <<>> /\ stderr = <<>>

\* main with --help in process.argv: the usage text, then process.exit(0)
Help ==
    /\ Starting
    /\ Becomes(exit(Current, "Usage", EXIT_SUCCESS))
    /\ UNCHANGED <<input, sdkVars, framerVars, clientVars>>

\* main's catch: an exception while the handlers are being set up
StartupFailure ==
    /\ Starting
    /\ Becomes(exit(Current, "Failed to start server", EXIT_SOFTWARE_ERROR))
    /\ UNCHANGED <<input, sdkVars, framerVars, clientVars>>

\* process.stdin.on('data'): the complete lines of the chunk, then the
\* microtasks the callback queued
Data ==
    /\ ~exited
    /\ Len(input) < MaxLines
    /\ \E chunk \in Chunks(MaxLines - Len(input)), rnd \in RandomRuns :
          /\ Becomes(runMicrotasks(dataLoop(Current, chunk, 1, rnd)))
          /\ input' = input \o chunk
    /\ UNCHANGED <<sdkVars, framerVars, clientVars>>

\* a setTimeout callback of a suspended handler
Timer ==
    /\ ~exited
    /\ \E k \in 1..Len(requests), rnd \in RandomRuns :
          /\ requests[k].wait > 0
          /\ Becomes(runMicrotasks(timerFired(Current, k, rnd)))
    /\ UNCHANGED <<input, sdkVars, framerVars, clientVars>>

\* an 'end' handler that hands what is left in the buffer to the decoder
\* before it exits
InputEndFlushes ==
    /\ ~exited
    /\ stream = <<>>
    /\ LET trimmed == IF \A i \in 1..Len(buffer) : buffer[i] = " " THEN <<>> ELSE buffer
           rejected == \E i \in 1..Len(trimmed) : trimmed[i] = "x"
       IN  /\ dispatched' = IF trimmed = <<>> THEN dispatched
                            ELSE Append(dispatched, trimmed)
           /\ buffer' = <<>>
           /\ Becomes(IF rejected
                      THEN exit(Current, "Failed to parse message", EXIT_DATA_ERROR)
                      ELSE exit(Current, "Input stream ended", EXIT_SUCCESS))
    /\ UNCHANGED <<input, sdkVars, stream, chunks, clientVars>>

\* process.stdin.on('end'), once stdin has delivered all it had: the buffer
\* is not looked at
InputEnd ==
    /\ ~exited
    /\ stream = <<>>
    /\ Becomes(exit(Current, "Input stream ended", EXIT_SUCCESS))
    /\ UNCHANGED <<input, sdkVars, framerVars, clientVars>>

\* signal handlers that let the handlers in flight finish: with a handler
\* suspended the signal is logged and the process goes on
SignalWaitsForHandlers ==
    /\ ~exited
    /\ \E sig \in {"Received SIGINT", "Received SIGTERM"} :
          IF \E k \in 1..Len(requests) : requests[k].wait > 0
          THEN /\ \A i \in 1..Len(stderr) : stderr[i] # sig
               /\ stderr' = Append(stderr, sig)
               /\ UNCHANGED <<calculationHistory, requestCount, stdout, requests,
                              exited, exitCode>>
          ELSE Becomes(exit(Current, sig, EXIT_SUCCESS))
    /\ UNCHANGED <<input, sdkVars, framerVars, clientVars>>

\* process.on('SIGINT') / process.on('SIGTERM')
Signal ==
    /\ ~exited
    /\ \E sig \in {"Received SIGINT", "Received SIGTERM"} :
          Becomes(exit(Current, sig, EXIT_SUCCESS))
    /\ UNCHANGED <<input, sdkVars, framerVars, clientVars>>

\* process.on('uncaughtException') / process.on('unhandledRejection'): an
\* exception no handler caught, such as the error event of a closed stdout
Uncaught ==
    /\ ~exited
    /\ \E fault \in {"Uncaught exception", "Unhandled rejection"} :
          Becomes(exit(Current, fault, EXIT_SOFTWARE_ERROR))
    /\ UNCHANGED <<input, sdkVars, framerVars, clientVars>>

---------------------------------------------------------------------------
(* server.ts: the calculation tools of the SDK-based server *)

ArithmeticOps == {"add", "subtract", "multiply", "divide"}
AdvancedOps == {"factorial", "log", "combinations", "permutations"}

\* CalculateInputSchema.parse(args) does not throw
CalculateInputValid(args) ==
    /\ Has(args, "a") /\ Has(args, "b") /\ Has(args, "op")
    /\ args.op \in ArithmeticOps

\* BatchCalculateInputSchema.parse(args) does not throw
BatchCalculateInputValid(args) ==
    /\ Has(args, "calculations")
    /\ Len(args.calculations) >= 1
    /\ Len(args.calculations) <= maxBatchSize
    /\ \A i \in 1..Len(args.calculations) : CalculateInputValid(args.calculations[i])

\* AdvancedCalculateInputSchema.parse(args) does not throw
AdvancedCalculateInputValid(args) ==
    /\ Has(args, "operation") /\ Has(args, "n")
    /\ args.operation \in AdvancedOps

performBasicCalculation(op, a, b) ==
    CASE op = "add" -> Ok(Num(a + b))
      [] op = "subtract" -> Ok(Num(a - b))
      [] op = "multiply" -> Ok(Num(a * b))
      [] op = "divide" -> IF b = 0 THEN Throw("Division by zero") ELSE Ok(Quotient(a, b))
      [] OTHER -> Throw("Unknown operation")

\* calculate: "Enforce history limit"
enforceHistoryLimit(hist) ==
    IF Len(hist) > maxHistorySize
    THEN LET oldestKey == hist[1].id
         IN  IF TruthyKey(oldestKey) THEN MapDelete(hist, oldestKey) ELSE hist
    ELSE hist

\* createHistoryEntry's timestamp: new Date().toISOString(), here the clock's
\* reading in milliseconds
Stamped(entry, now) ==
    [id |-> entry.id, operation |-> entry.operation, input_1 |-> entry.input_1,
     input_2 |-> entry.input_2, result |-> entry.result,
     expression |-> entry.expression, timestamp |-> now]

\* the clock when the i-th entry of a call is created: the call starts at
\* rnd.now and the clock advances by rnd.tick between two entries
ClockAt(rnd, i) == rnd.now + rnd.tick * (i - 1)

\* what a tool call leaves behind: [hist, created, outcome]
\* outcome: "ok" (a result), "isError" (a result with isError: true)

\* calculate, from performBasicCalculation on (after the stream waits)
sdkCalculateBody(hist, args, rnd) ==
    LET r == performBasicCalculation(args.op, args.a, args.b)
        historyEntry == Stamped(createHistoryEntry(args.op, args.a, <<args.b>>, r.value,
                                                   Draw(rnd, 1)),
                                ClockAt(rnd, 1))
    IN  IF r.ok
        THEN [hist |-> enforceHistoryLimit(MapSet(hist, historyEntry)),
              created |-> <<historyEntry>>, outcome |-> "ok"]
        ELSE [hist |-> hist, created |-> <<>>, outcome |-> "isError"]

\* batch_calculate: one turn of for (const calc of calculations),
\* acc = [hist, created, results]
sdkBatchItem(acc, calc, rnd) ==
    LET r == performBasicCalculation(calc.op, calc.a, calc.b)
        historyEntry == Stamped(createHistoryEntry(calc.op, calc.a, <<calc.b>>, r.value,
                                                   Draw(rnd, Len(acc.created) + 1)),
                                ClockAt(rnd, Len(acc.created) + 1))
    IN  IF r.ok
        THEN [hist |-> MapSet(acc.hist, historyEntry),
              created |-> Append(acc.created, historyEntry),
              results |-> Append(acc.results,
                                 [success |-> TRUE,
                                  expression |-> historyEntry.expression,
                                  value |-> r.value,
                                  calculationId |-> historyEntry.id])]
        ELSE [hist |-> acc.hist,
              created |-> acc.created,
              results |-> Append(acc.results,
                                 [success |-> FALSE,
                                  expression |-> <<calc.a, calc.op, calc.b>>,
                                  error |-> r.error])]

RECURSIVE sdkBatchLoop(_, _, _, _, _)
sdkBatchLoop(acc, calculations, lo, hi, rnd) ==
    IF lo > hi THEN acc
    ELSE IF lo = hi THEN sdkBatchItem(acc, calculations[lo], rnd)
    ELSE LET mid == (lo + hi) \div 2
         IN  Then(sdkBatchLoop(acc, calculations, lo, mid, rnd),
                  LAMBDA left : sdkBatchLoop(left, calculations, mid + 1, hi, rnd))

sdkBatchBody(hist, args, rnd) ==
    LET acc == sdkBatchLoop([hist |-> hist, created |-> <<>>, results |-> <<>>],
                            args.calculations, 1, Len(args.calculations), rnd)
    IN  [hist |-> acc.hist, created |-> acc.created, outcome |-> "ok",
         results |-> acc.results]

\* advanced_calculate: switch (operation)
sdkAdvancedSwitch(args) ==
    LET n == args.n
    IN  CASE args.operation = "factorial" -> factorial(n)
          [] args.operation = "log" ->
                IF Has(args, "base") /\ args.base # 0
                THEN Ok(<<"log", args.base, n>>)
                ELSE Ok(<<"ln", n>>)
          [] args.operation = "combinations" ->
                IF ~Has(args, "k") THEN Throw("k is required for combinations")
                ELSE combinations(n, args.k)
          [] args.operation = "permutations" ->
                IF ~Has(args, "k") THEN Throw("k is required for permutations")
                ELSE permutations(n, args.k)
          [] OTHER -> Throw("Unknown operation")

sdkAdvancedBody(hist, args, rnd) ==
    LET r == sdkAdvancedSwitch(args)
        historyEntry == Stamped(createHistoryEntry(args.operation, args.n, Opt(args, "k"),
                                                   r.value, Draw(rnd, 1)),
                                ClockAt(rnd, 1))
    IN  IF r.ok
        THEN [hist |-> MapSet(hist, historyEntry), created |-> <<historyEntry>>,
              outcome |-> "ok"]
        ELSE [hist |-> hist, created |-> <<>>, outcome |-> "isError"]

\* the tool calls the client makes
SdkCalculateArgs ==
    {Calc(6, "add", 3), Calc(6, "divide", 0), Calc(2, "power", 3),
     Calc(MAX_VALUE, "multiply", 2),
     [a |-> 6, b |-> 3, op |-> "add", stream |-> TRUE]}

SdkBatchArgs ==
    {[calculations |-> <<>>], [calculations |-> MixedBatch],
     [calculations |-> Adds(maxHistorySize + 1)],
     [calculations |-> Adds(maxBatchSize + 1)]}

SdkAdvancedArgs ==
    {[operation |-> "factorial", n |-> 3], [operation |-> "factorial", n |-> -1],
     [operation |-> "combinations", n |-> 3]}

SdkCallsMade == Len(sdkCalls) + Len(sdkPending)

\* what the clock can show when a call starts
SdkNow == {sdkClock} \cup (IF sdkClock < MaxClock THEN {sdkClock + 1} ELSE {})

\* Math.random and the clock during one call
SdkRuns(ticks) ==
    {[seed |-> r.seed, stride |-> r.stride, lead |-> r.lead, now |-> n, tick |-> d] :
        r \in RandomRuns, n \in SdkNow, d \in ticks}

\* the call is over: its record, the history and the entries it created
SdkFinish(tool, args, b) ==
    /\ sdkHistory' = b.hist
    /\ appended' = appended \o b.created
    /\ sdkClock' = IF b.created = <<>> THEN sdkClock
                   ELSE b.created[Len(b.created)].timestamp
    /\ sdkListing' = <<>>
    /\ sdkRead' = <<>>
    /\ sdkCalls' = Append(sdkCalls, [tool |-> tool, args |-> args, outcome |-> b.outcome,
                                     created |-> Len(b.created),
                                     sizeBefore |-> Len(sdkHistory)])

\* the handler threw before doing anything (the schema's parse): the SDK
\* answers with an error
SdkThrew(tool, args) ==
    /\ sdkCalls' = Append(sdkCalls, [tool |-> tool, args |-> args, outcome |-> "threw",
                                     created |-> 0, sizeBefore |-> Len(sdkHistory)])
    /\ UNCHANGED <<sdkHistory, sdkRequestCount, sdkPending, appended,
                   sdkClock, sdkListing, sdkRead>>

\* tool 'calculate', up to its stream waits or to its end
SdkCalculate ==
    /\ SdkCallsMade < MaxSdkCalls
    /\ \E args \in SdkCalculateArgs, rnd \in SdkRuns({0}) :
          IF ~CalculateInputValid(args) THEN SdkThrew("calculate", args)
          ELSE /\ sdkRequestCount' = sdkRequestCount + 1
               /\ IF streamRequested(args)
                  THEN /\ sdkPending' = Append(sdkPending, args)
                       /\ UNCHANGED <<sdkHistory, sdkCalls, appended,
                                      sdkClock, sdkListing, sdkRead>>
                  ELSE /\ SdkFinish("calculate", args, sdkCalculateBody(sdkHistory, args, rnd))
                       /\ UNCHANGED sdkPending
    /\ UNCHANGED <<stdioVars, framerVars, clientVars>>

\* tool 'calculate': the three waits of a call with stream are over
SdkCalculateResume ==
    /\ \E i \in 1..Len(sdkPending), rnd \in SdkRuns({0}) :
          /\ SdkFinish("calculate", sdkPending[i],
                       sdkCalculateBody(sdkHistory, sdkPending[i], rnd))
          /\ sdkPending' = SubSeq(sdkPending, 1, i - 1)
                           \o SubSeq(sdkPending, i + 1, Len(sdkPending))
    /\ UNCHANGED <<sdkRequestCount, stdioVars, framerVars, clientVars>>

\* tool 'batch_calculate'
SdkBatchCalculate ==
    /\ SdkCallsMade < MaxSdkCalls
    /\ \E args \in SdkBatchArgs, rnd \in SdkRuns({0, 1}) :
          IF ~BatchCalculateInputValid(args) THEN SdkThrew("batch_calculate", args)
          ELSE /\ sdkRequestCount' = sdkRequestCount + 1
               /\ SdkFinish("batch_calculate", args, sdkBatchBody(sdkHistory, args, rnd))
               /\ UNCHANGED sdkPending
    /\ UNCHANGED <<stdioVars, framerVars, clientVars>>

\* tool 'advanced_calculate'
SdkAdvancedCalculate ==
    /\ SdkCallsMade < MaxSdkCalls
    /\ \E args \in SdkAdvancedArgs, rnd \in SdkRuns({0}) :
          IF ~AdvancedCalculateInputValid(args) THEN SdkThrew("advanced_calculate", args)
          ELSE /\ sdkRequestCount' = sdkRequestCount + 1
               /\ SdkFinish("advanced_calculate", args,
                            sdkAdvancedBody(sdkHistory, args, rnd))
               /\ UNCHANGED sdkPending
    /\ UNCHANGED <<stdioVars, framerVars, clientVars>>

\* Array.prototype.sort with (a, b) => b.timestamp.localeCompare(a.timestamp)
\* on the entries with lo <= timestamp <= hi: the sort is stable, entries
\* with equal timestamps keep their order
RECURSIVE sortByTimestampDesc(_, _, _)
sortByTimestampDesc(entries, lo, hi) ==
    IF lo > hi THEN <<>>
    ELSE IF lo = hi THEN SelectSeq(entries, LAMBDA e : e.timestamp = lo)
    ELSE LET mid == (lo + hi) \div 2
         IN  sortByTimestampDesc(entries, mid + 1, hi)
             \o sortByTimestampDesc(entries, lo, mid)

\* calculation-history: list.  The uri calculator://history/<id> is its id.
listHistory(hist) ==
    LET sortedHistory == sortByTimestampDesc(hist, 0, sdkClock)
        n == IF Len(sortedHistory) < HISTORY_DISPLAY_LIMIT THEN Len(sortedHistory)
             ELSE HISTORY_DISPLAY_LIMIT
    IN  [i \in 1..n |-> sortedHistory[i].id]

\* resources/list
SdkListHistory ==
    /\ sdkListing' = <<listHistory(sdkHistory)>>
    /\ UNCHANGED <<sdkHistory, sdkRequestCount, sdkPending, sdkCalls, appended,
                   sdkClock, sdkRead, stdioVars, framerVars, clientVars>>

Ends(seq) == IF seq = <<>> THEN {} ELSE {seq[1], seq[Len(seq)]}

\* the addresses the client reads: the first and the last of the listing,
\* of the first and of the last calculation
SdkReadIds ==
    {id \in (IF sdkListing = <<>> THEN {} ELSE Ends(sdkListing[1]))
             \cup {e.id : e \in Ends(appended)} : TruthyKey(id)}

\* resources/read of calculator://history/<id>: calculationHistory.get, and
\* the throw if there is no such entry
SdkReadHistory ==
    /\ \E id \in SdkReadIds :
          sdkRead' = <<[id |-> id, found |-> MapHas(sdkHistory, id)]>>
    /\ UNCHANGED <<sdkHistory, sdkRequestCount, sdkPending, sdkCalls, appended,
                   sdkClock, sdkListing, stdioVars, framerVars, clientVars>>

NextSdk ==
    \/ SdkCalculate \/ SdkCalculateResume \/ SdkBatchCalculate \/ SdkAdvancedCalculate
    \/ SdkListHistory \/ SdkReadHistory

SpecSdk == Init /\ [][NextSdk]_vars

Next ==
    Help \/ StartupFailure \/ Data \/ Timer \/ InputEnd \/ Signal \/ Uncaught

Spec == Init /\ [][Next]_vars

---------------------------------------------------------------------------
(* server-stdio.js: the line framing of the 'data' handler, character by   *)
(* character.  A text is a sequence of characters.                         *)

RECURSIVE split(_)
\* text.split('\n')
split(text) ==
    IF \A i \in 1..Len(text) : text[i] # "\n" THEN <<text>>
    ELSE LET i == CHOOSE j \in 1..Len(text) :
                      text[j] = "\n" /\ \A h \in 1..(j - 1) : text[h] # "\n"
         IN  <<SubSeq(text, 1, i - 1)>> \o split(SubSeq(text, i + 1, Len(text)))

\* line.trim(): the blanks at both ends are removed
trim(line) ==
    LET inked == {i \in 1..Len(line) : line[i] # " "}
    IN  IF inked = {} THEN <<>>
        ELSE SubSeq(line, CHOOSE i \in inked : \A j \in inked : i <= j,
                          CHOOSE i \in inked : \A j \in inked : j <= i)

\* JSON.parse(trimmed) throws, or the message has no jsonrpc "2.0"
Undecodable(trimmed) == \E i \in 1..Len(trimmed) : trimmed[i] = "x"

RECURSIVE frameLines(_, _, _)
\* for (const line of lines): a line that is not blank is handed to
\* JSON.parse; the catch block's process.exit ends the loop
frameLines(lines, i, handed) ==
    IF i > Len(lines) THEN [handed |-> handed, failed |-> FALSE]
    ELSE LET trimmed == trim(lines[i])
         IN  IF trimmed = <<>> THEN frameLines(lines, i + 1, handed)
             ELSE IF Undecodable(trimmed)
             THEN [handed |-> Append(handed, trimmed), failed |-> TRUE]
             ELSE frameLines(lines, i + 1, Append(handed, trimmed))

\* the 'data' handler splitting the chunk alone: the fragment kept from the
\* chunk before is dropped
onDataNoCarry(buf, chunk) ==
    LET lines == split(chunk)
        f == frameLines(SubSeq(lines, 1, Len(lines) - 1), 1, <<>>)
    IN  [buffer |-> lines[Len(lines)], handed |-> f.handed, failed |-> f.failed]

\* the 'data' handler: buffer += chunk; lines = buffer.split('\n');
\* buffer = lines.pop() || ''; then the loop over the complete lines
onData(buf, chunk) ==
    LET lines == split(buf \o chunk)
        f == frameLines(SubSeq(lines, 1, Len(lines) - 1), 1, <<>>)
    IN  [buffer |-> lines[Len(lines)], handed |-> f.handed, failed |-> f.failed]

\* process.stdin.on('data') with a chunk of any size
Feed ==
    /\ ~exited
    /\ stream # <<>>
    /\ \E n \in 1..Len(stream) :
          LET chunk == SubSeq(stream, 1, n)
              f == onData(buffer, chunk)
          IN  /\ stream' = SubSeq(stream, n + 1, Len(stream))
              /\ chunks' = Append(chunks, chunk)
              /\ buffer' = f.buffer
              /\ dispatched' = dispatched \o f.handed
              /\ Becomes(IF f.failed
                         THEN exit(Current, "Failed to parse message", EXIT_DATA_ERROR)
                         ELSE Current)
    /\ UNCHANGED <<input, sdkVars, clientVars>>

NextFramer == Feed

SpecFramer == InitStream /\ [][NextFramer]_vars

\* the input, character by character, and its end
NextStream == Feed \/ InputEnd

SpecStream == InitStream /\ [][NextStream]_vars

---------------------------------------------------------------------------
(* client.ts: CalculatorClient.connect and close *)

maxRetries == 3
retryDelays == <<1000, 2000, 4000>>

\* this.retryDelays[this.retryCount - 1] || 5000
retryDelay(count) ==
    IF count \in 1..Len(retryDelays) THEN retryDelays[count] ELSE 5000

\* what connect did: an attempt begun (n is its number), an attempt failed
\* (n is retryCount), a wait begun (n is its length in ms), the return
\* ("connected") or the throw ("threw"); `connected` is this.connected then
Did(kind, n, isConnected) ==
    [call |-> connectCalls, kind |-> kind, n |-> n, connected |-> isConnected]

\* client.connect(serverPath) is called: the first test of the while loop
Connect ==
    /\ clientPc = "idle"
    /\ connectCalls < MaxConnectCalls
    /\ connectCalls' = connectCalls + 1
    /\ IF retryCount < maxRetries
       THEN /\ clientPc' = "attempt"
            /\ clientLog' = Append(clientLog, [call |-> connectCalls + 1, kind |-> "attempt",
                                               n |-> retryCount + 1,
                                               connected |-> connected])
       ELSE /\ clientPc' = "idle"
            /\ clientLog' = Append(clientLog, [call |-> connectCalls + 1, kind |-> "threw",
                                               n |-> 0, connected |-> connected])
    /\ UNCHANGED <<connected, retryCount, stdioVars, sdkVars, framerVars>>

\* an attempt whose first statement is this.connected = true
AttemptConnectedFirst ==
    /\ clientPc = "attempt"
    /\ \/ /\ connected' = TRUE
          /\ clientPc' = "idle"
          /\ clientLog' = Append(clientLog, Did("connected", 0, TRUE))
          /\ UNCHANGED retryCount
       \/ /\ connected' = TRUE
          /\ retryCount' = retryCount + 1
          /\ IF retryCount + 1 < maxRetries
             THEN /\ clientPc' = "delay"
                  /\ clientLog' = clientLog \o
                        <<Did("failed", retryCount + 1, TRUE),
                          Did("wait", retryDelay(retryCount + 1), TRUE)>>
             ELSE /\ clientPc' = "idle"
                  /\ clientLog' = clientLog \o
                        <<Did("failed", retryCount + 1, TRUE),
                          Did("threw", 0, TRUE)>>
    /\ UNCHANGED <<connectCalls, stdioVars, sdkVars, framerVars>>

\* the try block ends: await this.client.connect(this.transport) resolves
\* (connected = true, return) or the block throws (the catch: retryCount++,
\* then the wait, or the loop ends and connect throws)
Attempt ==
    /\ clientPc = "attempt"
    /\ \/ /\ connected' = TRUE
          /\ clientPc' = "idle"
          /\ clientLog' = Append(clientLog, Did("connected", 0, TRUE))
          /\ UNCHANGED retryCount
       \/ /\ retryCount' = retryCount + 1
          /\ IF retryCount + 1 < maxRetries
             THEN /\ clientPc' = "delay"
                  /\ clientLog' = clientLog \o
                        <<Did("failed", retryCount + 1, connected),
                          Did("wait", retryDelay(retryCount + 1), connected)>>
             ELSE /\ clientPc' = "idle"
                  /\ clientLog' = clientLog \o
                        <<Did("failed", retryCount + 1, connected),
                          Did("threw", 0, connected)>>
          /\ UNCHANGED connected
    /\ UNCHANGED <<connectCalls, stdioVars, sdkVars, framerVars>>

\* the setTimeout of the catch block fires: the loop's next turn
Delay ==
    /\ clientPc = "delay"
    /\ IF retryCount < maxRetries
       THEN /\ clientPc' = "attempt"
            /\ clientLog' = Append(clientLog, Did("attempt", retryCount + 1, connected))
       ELSE /\ clientPc' = "idle"
            /\ clientLog' = Append(clientLog, Did("threw", 0, connected))
    /\ UNCHANGED <<connected, retryCount, connectCalls, stdioVars, sdkVars, framerVars>>

\* close(): if (this.connected) { await this.client.close(); connected = false }
Close ==
    /\ clientPc = "idle"
    /\ connected
    /\ connected' = FALSE
    /\ UNCHANGED <<retryCount, clientPc, connectCalls, clientLog,
                   stdioVars, sdkVars, framerVars>>

NextClient == Connect \/ Attempt \/ Delay \/ Close

SpecClient == Init /\ [][NextClient]_vars

\* the event loop runs what is pending: the attempt settles, the timer fires
SpecClientFair == SpecClient /\ WF_vars(Attempt) /\ WF_vars(Delay)

---------------------------------------------------------------------------
(* Properties *)

IsTerminal(e) == e.kind = "response" \/ e.kind = "error"

\* where in stdout the final responses / the progress notifications of
\* request k stand
Terminals(k) == {i \in 1..Len(stdout) : IsTerminal(stdout[i]) /\ stdout[i].req = k}
ProgressOf(k) == {i \in 1..Len(stdout) : stdout[i].kind = "progress" /\ stdout[i].req = k}

EndedByInputEnd ==
    exited /\ stderr # <<>> /\ stderr[Len(stderr)] = "Input stream ended"

\* C1: every request read from the input gets exactly one response envelope
\* with its id, never none and never two.  Stated for the runs that stop at
\* the end of the input: when the process has exited there, each request
\* handed to handleRequest has exactly one response.
C1_ExactlyOneResponse ==
    EndedByInputEnd =>
        \A k \in 1..Len(requests) :
            Cardinality({i \in Terminals(k) : stdout[i].id = requests[k].id}) = 1

\* the percentages the handler of request k writes, in the order of its code
Programme(k) ==
    IF requests[k].method = "calculate" THEN <<10, 50, 90>> ELSE <<20, 40, 60, 80, 100>>

\* C2: the progress notifications of one request are written in the order
\* the handler issues them, carry the request's id, and all stand before the
\* request's final response, whatever other requests write in between.
C2_ProgressBeforeResponse ==
    \A k \in 1..Len(requests) :
        /\ Cardinality(ProgressOf(k)) <= Len(Programme(k))
        /\ \A i \in ProgressOf(k) :
              /\ stdout[i].relatedRequestId = requests[k].id
              /\ stdout[i].pct = Programme(k)[Cardinality({j \in ProgressOf(k) : j <= i})]
              /\ \A t \in Terminals(k) : i < t

\* a streaming calculate was answered after its three notifications while
\* another request wrote between its first notification and its response
C2_Witness ==
    \E k \in 1..Len(requests) :
        /\ requests[k].method = "calculate"
        /\ requests[k].done
        /\ Cardinality(ProgressOf(k)) = 3
        /\ \E i \in ProgressOf(k), t \in Terminals(k), o \in 1..Len(stdout) :
              i < o /\ o < t /\ stdout[o].req # k

Min(a, b) == IF a < b THEN a ELSE b

DistinctIds(entries) ==
    \A i, j \in 1..Len(entries) : entries[i].id = entries[j].id => i = j

\* C3: after N successful calculations the history holds exactly min(N, 50)
\* entries, and for N > 50 they are the 50 appended last.  (Stated for the
\* runs whose generated ids are all different.)
C3_HistoryCapacity ==
    DistinctIds(appended) =>
        LET N == Len(appended)
        IN  /\ Len(sdkHistory) = Min(N, maxHistorySize)
            /\ N > maxHistorySize =>
                  sdkHistory = SubSeq(appended, N - maxHistorySize + 1, N)

\* C4: in every state the history holds at most 50 entries.
C4_HistoryAtMost50 == Len(calculationHistory) <= maxHistorySize

\* the request is a batch_calculate whose calculations are a list of items
\* with numeric a and b and one of the four operations
WellFormedBatch(message) ==
    /\ message.method = "batch_calculate"
    /\ Has(message, "params")
    /\ Has(message.params, "calculations")
    /\ \A i \in 1..Len(message.params.calculations) :
          CalculateInputValid(message.params.calculations[i])

ViolatesBusinessRule(calc) == calc.op = "divide" /\ calc.b = 0

\* v is the value of calc (a quotient by cross-multiplication)
IsValueOf(v, calc) ==
    CASE calc.op = "add" -> v = <<calc.a + calc.b, 1>>
      [] calc.op = "subtract" -> v = <<calc.a - calc.b, 1>>
      [] calc.op = "multiply" -> v = <<calc.a * calc.b, 1>>
      [] calc.op = "divide" -> v[2] > 0 /\ v[1] * calc.b = calc.a * v[2]

SymbolOf(op) ==
    CASE op = "add" -> "+" [] op = "subtract" -> "-"
      [] op = "multiply" -> "x" [] op = "divide" -> "/"

\* C5: the response to a batch of K well-formed items has exactly K outcomes,
\* outcome i describes item i, it is a failure with a message exactly when
\* item i divides by zero, and otherwise a success with the item's value.
C5_BatchResultShape ==
    \A n \in 1..Len(stdout) :
        (stdout[n].kind = "response" /\ WellFormedBatch(requests[stdout[n].req].message)) =>
            LET calcs == requests[stdout[n].req].message.params.calculations
                res == stdout[n].result.results
            IN  /\ Len(res) = Len(calcs)
                /\ \A i \in 1..Len(calcs) :
                      /\ res[i].success = ~ViolatesBusinessRule(calcs[i])
                      /\ res[i].success =>
                            /\ IsValueOf(res[i].value, calcs[i])
                            /\ res[i].expression[1] = calcs[i].a
                            /\ res[i].expression[2] = SymbolOf(calcs[i].op)
                            /\ res[i].expression[3] = calcs[i].b
                      /\ ~res[i].success =>
                            /\ res[i].error # ""
                            /\ res[i].expression = <<calcs[i].a, calcs[i].op, calcs[i].b>>

\* a batch with a division by zero between successful items was answered
C5_Witness ==
    \E n \in 1..Len(stdout) :
        /\ stdout[n].kind = "response"
        /\ WellFormedBatch(requests[stdout[n].req].message)
        /\ requests[stdout[n].req].message.params.calculations = MixedBatch
        /\ ~stdout[n].result.results[2].success
        /\ stdout[n].result.results[3].success

\* C6: a batch_calculate whose calculations are a list of well-formed items
\* is answered with a success envelope, never with an error envelope,
\* however many of its items fail.
C6_BatchNeverFailsOnItems ==
    \A k \in 1..Len(requests) :
        WellFormedBatch(requests[k].message) =>
            /\ \A t \in Terminals(k) : stdout[t].kind = "response"
            /\ requests[k].done => Terminals(k) # {}

\* a batch all of whose items fail was answered with a success envelope
C6_Witness ==
    \E n \in 1..Len(stdout) :
        /\ stdout[n].kind = "response"
        /\ WellFormedBatch(requests[stdout[n].req].message)
        /\ Len(stdout[n].result.results) = 2
        /\ \A i \in 1..2 : ~stdout[n].result.results[i].success

\* C7: a batch_calculate with more than 100 items is rejected with an error
\* before any item executes: it creates no history entry.
C7_OversizedBatchRejected ==
    \A k \in 1..Len(requests) :
        (WellFormedBatch(requests[k].message)
         /\ Len(requests[k].message.params.calculations) > maxBatchSize) =>
            /\ requests[k].created = 0
            /\ \A t \in Terminals(k) : stdout[t].kind = "error"

\* C8: requestCount equals the number of requests dispatched so far, the
\* failed ones included.
C8_RequestCountCountsEveryRequest == sdkRequestCount = SdkCallsMade

\* the line is not empty and cannot be parsed as JSON or does not carry
\* jsonrpc "2.0"
Malformed(line) ==
    /\ ~line.blank
    /\ \/ ~line.json
       \/ ~Has(line.msg, "jsonrpc")
       \/ line.msg.jsonrpc # "2.0"

IsRequestLine(line) ==
    /\ ~line.blank /\ line.json
    /\ Has(line.msg, "jsonrpc") /\ line.msg.jsonrpc = "2.0"
    /\ Has(line.msg, "method") /\ line.msg.method # ""
    /\ Has(line.msg, "id")

FirstMalformed(j) ==
    /\ j \in 1..Len(input)
    /\ Malformed(input[j])
    /\ \A h \in 1..(j - 1) : ~Malformed(input[h])

\* C9: once a malformed line has arrived the process has exited with code 65,
\* and nothing was written for that line: every envelope on stdout belongs
\* to one of the requests that stand before it in the input.
C9_DecodeFailureIsFatal ==
    \A j \in 1..Len(input) :
        FirstMalformed(j) =>
            /\ exited
            /\ exitCode = 65
            /\ Len(requests) = Cardinality({h \in 1..(j - 1) : IsRequestLine(input[h])})
            /\ \A n \in 1..Len(stdout) : stdout[n].req \in 1..Len(requests)

\* a malformed line arrived after a request
C9_Witness ==
    \E j \in 1..Len(input) :
        /\ FirstMalformed(j)
        /\ \E h \in 1..(j - 1) : IsRequestLine(input[h])
        /\ exited /\ exitCode = 65

RegisteredMethods ==
    {"calculate", "batch_calculate", "advanced_calculate", "demo_progress", "read_resource"}
    \cup PlaceholderTools \cup Prompts

\* C10: a request for a method that is not registered is answered with an
\* error whose code is not the internal-error code, and no handler runs for it.
C10_UnknownMethodCode ==
    \A k \in 1..Len(requests) :
        requests[k].method \notin RegisteredMethods =>
            /\ requests[k].created = 0
            /\ ProgressOf(k) = {}
            /\ \A t \in Terminals(k) :
                  stdout[t].kind = "error" /\ stdout[t].code # INTERNAL_ERROR

\* the request is a calculate that divides by zero
DividesByZero(message) ==
    /\ message.method = "calculate"
    /\ Has(message, "params")
    /\ CalculateInputValid(message.params)
    /\ message.params.op = "divide"
    /\ message.params.b = 0

\* C11: a calculate request with op = divide and b = 0 is answered with an
\* error whose message is "Division by zero" and whose code is not the
\* internal-error code; answering it does not end the process.
C11_DivisionByZeroCode ==
    \A k \in 1..Len(requests) :
        DividesByZero(requests[k].message) =>
            /\ requests[k].created = 0
            /\ \A t \in Terminals(k) :
                  /\ stdout[t].kind = "error"
                  /\ stdout[t].message = "Division by zero"
                  /\ stdout[t].code # INTERNAL_ERROR

\* the handler of the request raises an exception that is not a business-rule
\* failure: a TypeError, for the params are missing
UnexpectedFault(message) ==
    /\ message.method \in {"calculate", "batch_calculate", "advanced_calculate",
                           "read_resource"}
    /\ ~Has(message, "params")

GenericMessage == "Internal error"

\* C12: when a handler raises an unexpected exception the response has the
\* internal-error code and a generic message: the text of the exception is
\* not on the wire.
C12_ErrorOpacity ==
    \A k \in 1..Len(requests) :
        UnexpectedFault(requests[k].message) =>
            \A t \in Terminals(k) :
                /\ stdout[t].kind = "error"
                /\ stdout[t].code = INTERNAL_ERROR
                /\ stdout[t].message = GenericMessage

\* the request reads calculator://history/<id>
ReadsHistory(message) ==
    /\ message.method = "read_resource"
    /\ Has(message, "params")
    /\ Has(message.params, "uri")
    /\ UriStartsWith(message.params.uri, UriHistoryPrefix)

\* C13: reading calculator://history/<id> for an id that is not in the store
\* is answered with a not-found error whose code is not the internal-error
\* code.
C13_UnknownHistoryIdCode ==
    \A k \in 1..Len(requests) :
        ReadsHistory(requests[k].message) =>
            \A t \in Terminals(k) :
                stdout[t].kind = "error" =>
                    /\ stdout[t].message = "Calculation not found"
                    /\ stdout[t].code # INTERNAL_ERROR

DemoSteps == <<20, 40, 60, 80, 100>>

C16_InputCloseKeepsAcceptedRequests ==
    EndedByInputEnd =>
        \A k \in 1..Len(requests) :
            /\ requests[k].done
            /\ requests[k].wait = 0
            /\ requests[k].method = "demo_progress" =>
                  Cardinality(ProgressOf(k)) = Len(DemoSteps)

\* the handler of the request waits on timers
Waits(message) ==
    \/ message.method = "demo_progress"
    \/ /\ message.method = "calculate"
       /\ Has(message, "params")
       /\ streamRequested(message.params)

\* C17: a suspended handler blocks nobody.  While the process runs, every
\* request whose handler does not wait has its response on the output,
\* whatever earlier requests are still suspended, and every suspended
\* handler has its own timer pending.
C17_NonBlockingHandlers ==
    ~exited =>
        \A j \in 1..Len(requests) :
            IF Waits(requests[j].message)
            THEN requests[j].done \/ requests[j].wait > 0
            ELSE requests[j].done /\ Terminals(j) # {}

\* a demo_progress is still suspended while the streaming calculate that
\* arrived after it has been answered
C17_Witness ==
    \E k, j \in 1..Len(requests) :
        /\ k < j
        /\ requests[k].method = "demo_progress"
        /\ ~requests[k].done /\ requests[k].wait > 0
        /\ requests[j].method = "calculate"
        /\ Waits(requests[j].message)
        /\ requests[j].done
        /\ \E t \in Terminals(j), i \in ProgressOf(k) : i < t

NormalShutdown == {"Input stream ended", "Received SIGINT", "Received SIGTERM", "Usage"}
InternalFault == {"Uncaught exception", "Unhandled rejection", "Failed to start server"}

\* what the process logged last, before it exited
ExitCause == stderr[Len(stderr)]

\* C18: the process exits with 0 only on a normal shutdown (end of input,
\* SIGINT, SIGTERM, --help), with 65 only on a malformed input line and with
\* 70 only on an uncaught exception, an unhandled rejection or a startup
\* failure; it exits with no other code, and each cause has one code.
C18_ExitCodes ==
    exited =>
        /\ stderr # <<>>
        /\ exitCode \in {0, 65, 70}
        /\ exitCode = 0 <=> ExitCause \in NormalShutdown
        /\ exitCode = 65 <=> ExitCause = "Failed to parse message"
        /\ exitCode = 65 <=> \E j \in 1..Len(input) : Malformed(input[j])
        /\ exitCode = 70 <=> ExitCause \in InternalFault

\* the process has exited on a malformed line
C18_Witness ==
    /\ exited
    /\ exitCode = 65
    /\ ExitCause = "Failed to parse message"

\* stdout[n] is the success response of a calculate request
CalculateResponse(n) ==
    /\ stdout[n].kind = "response"
    /\ requests[stdout[n].req].method = "calculate"

\* C19: after a calculate returned calculationId c, what is stored under c
\* (and so what reading calculator://history/c returns) is the entry of that
\* very calculation, its operation, operands and result: no later
\* calculation changes it.  (This server never evicts.)
C19_ReadAfterWrite ==
    \A n \in 1..Len(stdout) :
        CalculateResponse(n) =>
            LET c == stdout[n].result.calculationId
                params == requests[stdout[n].req].message.params
            IN  /\ MapHas(calculationHistory, c)
                /\ MapGet(calculationHistory, c).operation = params.op
                /\ MapGet(calculationHistory, c).input_1 = params.a
                /\ MapGet(calculationHistory, c).input_2 = <<params.b>>
                /\ MapGet(calculationHistory, c).result = stdout[n].result.value

\* the calculationIds the response stdout[n] returned
IdsReturned(n) ==
    IF stdout[n].kind # "response" THEN {}
    ELSE IF requests[stdout[n].req].method \in {"calculate", "advanced_calculate"}
    THEN {stdout[n].result.calculationId}
    ELSE IF requests[stdout[n].req].method = "batch_calculate"
    THEN {stdout[n].result.results[i].calculationId :
             i \in {h \in 1..Len(stdout[n].result.results) :
                       stdout[n].result.results[h].success}}
    ELSE {}

\* C20: the ids given to history entries are pairwise distinct: no two
\* successful calculations get the same calculationId, within one batch or
\* across requests, so every one of them has its own entry in the store.
C20_UniqueHistoryIds ==
    /\ \A n, m \in 1..Len(stdout) : n # m => IdsReturned(n) \cap IdsReturned(m) = {}
    /\ \A k \in 1..Len(requests) :
          \A t \in Terminals(k) : Cardinality(IdsReturned(t)) = requests[k].created

RECURSIVE Reverse(_)
Reverse(seq) == IF seq = <<>> THEN <<>> ELSE Append(Reverse(Tail(seq)), Head(seq))

\* the ids of the stored entries, newest first, at most 50 of them
NewestFirst(hist) ==
    LET n == Min(Len(hist), 50)
    IN  Reverse([i \in 1..n |-> hist[Len(hist) - n + i].id])

\* C21: a listing of the history returns the stored entries newest-first, in
\* reverse order of appending, also when entries were appended in the same
\* clock tick, and at most 50 of them.  (Stated for the runs whose generated
\* ids are all different, where the store keeps the order of appending.)
C21_ListingNewestFirst ==
    (sdkListing # <<>> /\ DistinctIds(appended)) =>
        /\ Len(sdkListing[1]) <= 50
        /\ sdkListing[1] = NewestFirst(sdkHistory)

\* C22: every address a listing returned resolves when it is read with no
\* mutation in between, and the listing made after a successful calculation
\* contains the address of that calculation.
C22_ListedHistoryReadable ==
    sdkListing # <<>> =>
        /\ \A r \in 1..Len(sdkRead) :
              (\E i \in 1..Len(sdkListing[1]) : sdkListing[1][i] = sdkRead[r].id)
                  => sdkRead[r].found
        /\ appended # <<>> =>
              \E i \in 1..Len(sdkListing[1]) :
                  sdkListing[1][i] = appended[Len(appended)].id

RECURSIVE TotalCreated(_)
TotalCreated(k) == IF k = 0 THEN 0 ELSE requests[k].created + TotalCreated(k - 1)

Successes(results) == Cardinality({i \in 1..Len(results) : results[i].success})

\* C23: a successful calculate or advanced_calculate appends exactly one
\* history entry, a batch as many as it has successful items, and a
\* calculation that fails appends none; the store holds no entry that no
\* successful calculation appended.
C23_HistoryGrowsOnlyOnSuccess ==
    /\ \A k \in 1..Len(requests) :
          /\ requests[k].method \notin {"calculate", "batch_calculate", "advanced_calculate"}
                => requests[k].created = 0
          /\ \A t \in Terminals(k) :
                IF stdout[t].kind = "error" THEN requests[k].created = 0
                ELSE IF requests[k].method \in {"calculate", "advanced_calculate"}
                THEN requests[k].created = 1
                ELSE IF requests[k].method = "batch_calculate"
                THEN requests[k].created = Successes(stdout[t].result.results)
                ELSE requests[k].created = 0
    /\ Len(calculationHistory) <= TotalCreated(Len(requests))
    /\ (C20_UniqueHistoryIds /\ \A k \in 1..Len(requests) : requests[k].done)
          => Len(calculationHistory) = TotalCreated(Len(requests))

\* a failed advanced_calculate and a successful one were answered, and the
\* store holds the one entry of the latter
C23_Witness ==
    \E k, j \in 1..Len(requests) :
        /\ requests[k].method = "advanced_calculate"
        /\ requests[j].method = "advanced_calculate"
        /\ \E t \in Terminals(k) : stdout[t].kind = "error"
        /\ \E t \in Terminals(j) : stdout[t].kind = "response"
        /\ requests[k].created = 0 /\ requests[j].created = 1
        /\ Len(calculationHistory) = 1

\* the params of the calculate request do not have the declared shape
InvalidCalculate(message) ==
    /\ message.method = "calculate"
    /\ \/ ~Has(message, "params")
       \/ ~CalculateInputValid(message.params)

\* what the JavaScript exceptions of the handlers say
RawExceptionTexts ==
    {"Cannot destructure property of undefined", "Cannot read properties of undefined",
     "calculations is not iterable"}

\* C24: a calculate request whose params do not match the declared shape
\* (no params object, an op outside add/subtract/multiply/divide) is
\* answered with an error that has the invalid-params code, not the
\* internal-error code, and not the text of an exception; no calculation is
\* made and no history entry is created.
C24_ParameterValidation ==
    \A k \in 1..Len(requests) :
        InvalidCalculate(requests[k].message) =>
            /\ requests[k].created = 0
            /\ \A t \in Terminals(k) :
                  /\ stdout[t].kind = "error"
                  /\ stdout[t].code # INTERNAL_ERROR
                  /\ stdout[t].message \notin RawExceptionTexts

\* line h of the input was handled: no line up to it is malformed
Processed(h) == \A g \in 1..h : ~Malformed(input[g])

\* an envelope with a method and no id
IsNotificationLine(line) ==
    /\ ~line.blank /\ line.json
    /\ Has(line.msg, "jsonrpc") /\ line.msg.jsonrpc = "2.0"
    /\ Has(line.msg, "method") /\ line.msg.method # ""
    /\ ~Has(line.msg, "id")

\* C25: an input envelope with a method and no id causes no envelope on the
\* output: every envelope written belongs to a request, an input line with
\* an id, the requests are exactly the request lines handled, and input
\* without request lines leaves the output empty.
C25_NotificationsGetNoResponse ==
    /\ Len(requests) =
          Cardinality({h \in 1..Len(input) : Processed(h) /\ IsRequestLine(input[h])})
    /\ \A n \in 1..Len(stdout) :
          /\ stdout[n].req \in 1..Len(requests)
          /\ Has(requests[stdout[n].req].message, "id")
    /\ (\A h \in 1..Len(input) : ~(Processed(h) /\ IsRequestLine(input[h])))
          => stdout = <<>>

\* a notification was handled, and so was a request: the output holds the
\* response to the request and nothing else
C25_Witness ==
    /\ \E h \in 1..Len(input) : Processed(h) /\ IsNotificationLine(input[h])
    /\ \E i \in 1..Len(stderr) : stderr[i] = "Received notification"
    /\ Len(requests) = 1
    /\ requests[1].done
    /\ Len(stdout) = 1

\* the exact product of the operands lies outside the representable range
Overflows(calc) == calc.op = "multiply" /\ Abs(calc.a * calc.b) > MAX_VALUE

\* the request is a plain calculate of one of the four operations that does
\* not divide by zero and whose result is a finite number
PlainCalculate(message) ==
    /\ message.method = "calculate"
    /\ Has(message, "params")
    /\ CalculateInputValid(message.params)
    /\ ~streamRequested(message.params)
    /\ ~ViolatesBusinessRule(message.params)
    /\ ~Overflows(message.params)

AnsweredWithError(k) == \E t \in Terminals(k) : stdout[t].kind = "error"

ExitCauses == NormalShutdown \cup InternalFault \cup {"Failed to parse message"}

\* C26: answering a request with an error does not stop the server.  The
\* process exits only for a cause of its own (shutdown, malformed line,
\* fault), never because of an error response; and while it runs, a
\* well-formed calculate that follows a request answered with an error has
\* its success response with the right value.
C26_RecoveryAfterError ==
    /\ exited => (stderr # <<>> /\ ExitCause \in ExitCauses)
    /\ ~exited =>
          \A k, j \in 1..Len(requests) :
              (k < j /\ AnsweredWithError(k) /\ PlainCalculate(requests[j].message)) =>
                  /\ Cardinality(Terminals(j)) = 1
                  /\ \A t \in Terminals(j) :
                        /\ stdout[t].kind = "response"
                        /\ stdout[t].id = requests[j].id
                        /\ IsValueOf(stdout[t].result.value, requests[j].message.params)

\* an unknown method was answered with an error and the calculate read after
\* it, in a later chunk, was answered with its value; the process runs
C26_Witness ==
    /\ ~exited
    /\ Len(requests) = 2
    /\ requests[1].method = "no_such_method"
    /\ AnsweredWithError(1)
    /\ PlainCalculate(requests[2].message)
    /\ \E t \in Terminals(2) : stdout[t].kind = "response"

SignalLines == {"Received SIGINT", "Received SIGTERM"}

\* C27: when SIGINT or SIGTERM is received, also with handlers in flight,
\* the process exits at once with code 0; after the exit no input line is
\* dispatched and nothing more is written, so the output ends with the last
\* whole envelope written before the signal.
C27_Shutdown ==
    /\ [](\A i \in 1..Len(stderr) :
             stderr[i] \in SignalLines =>
                 (i = Len(stderr) /\ exited /\ exitCode = 0))
    /\ [](\A n \in 1..Len(stdout) : stdout[n].kind \in {"progress", "response", "error"})
    /\ [][exited => UNCHANGED stdioVars]_vars

\* a signal ended the process while a handler was suspended after its first
\* progress notification
C27_Witness ==
    /\ exited
    /\ exitCode = 0
    /\ stderr # <<>>
    /\ stderr[Len(stderr)] \in SignalLines
    /\ \E k \in 1..Len(requests) :
          requests[k].wait > 0 /\ ~requests[k].done /\ ProgressOf(k) # {}

\* C28: a batch_calculate call whose calculations list is empty is answered
\* with a success result (an empty list of results, nothing stored), not with
\* an error.
C28_EmptyBatchSucceeds ==
    \A c \in 1..Len(sdkCalls) :
        (/\ sdkCalls[c].tool = "batch_calculate"
         /\ Has(sdkCalls[c].args, "calculations")
         /\ sdkCalls[c].args.calculations = <<>>) =>
            /\ sdkCalls[c].outcome = "ok"
            /\ sdkCalls[c].created = 0

\* the same on the line-oriented server: the response carries an empty list
C28_EmptyBatchSucceedsStdio ==
    \A k \in 1..Len(requests) :
        (/\ WellFormedBatch(requests[k].message)
         /\ requests[k].message.params.calculations = <<>>) =>
            /\ requests[k].created = 0
            /\ \A t \in Terminals(k) :
                  stdout[t].kind = "response" /\ stdout[t].result.results = <<>>

\* C29: a multiply whose exact result lies outside the representable range
\* is answered with an error, never with a success response, and creates no
\* history entry.
C29_MultiplyOverflowDeclared ==
    \A k \in 1..Len(requests) :
        (/\ requests[k].method = "calculate"
         /\ Has(requests[k].message, "params")
         /\ CalculateInputValid(requests[k].message.params)
         /\ Overflows(requests[k].message.params)) =>
            /\ requests[k].created = 0
            /\ \A t \in Terminals(k) : stdout[t].kind = "error"

\* what the server does instead: the response is a success whose value is
\* Infinity, and the call stored an entry
C29_OverflowStoredAsInfinity ==
    \A n \in 1..Len(stdout) :
        (CalculateResponse(n) /\ Overflows(requests[stdout[n].req].message.params)) =>
            /\ stdout[n].result.value = Infinity
            /\ requests[stdout[n].req].created = 1

\* the SDK server likewise: the call is a success that stored an entry
C29_OverflowStoredSdk ==
    \A c \in 1..Len(sdkCalls) :
        (/\ sdkCalls[c].tool = "calculate"
         /\ CalculateInputValid(sdkCalls[c].args)
         /\ Overflows(sdkCalls[c].args)) =>
            /\ sdkCalls[c].outcome = "ok"
            /\ sdkCalls[c].created = 1

RECURSIVE Concat(_)
\* the texts of a sequence, one after the other
Concat(texts) == IF texts = <<>> THEN <<>> ELSE Head(texts) \o Concat(Tail(texts))

\* what has been delivered so far, had it arrived in one chunk
InOneChunk == onData(<<>>, Concat(chunks))

\* C30: however the input is cut into chunks, the lines handed to the
\* decoder are those handed to it when the same input arrives in one chunk,
\* each once and whole; the fragment kept is the same; blank lines are never
\* handed over, and the process exits only on a line the decoder rejects.
C30_ChunkingIndependence ==
    /\ dispatched = InOneChunk.handed
    /\ exited = InOneChunk.failed
    /\ ~exited => buffer = InOneChunk.buffer
    /\ \A i \in 1..Len(dispatched) :
          /\ dispatched[i] # <<>>
          /\ dispatched[i][1] # " "
          /\ \A j \in 1..Len(dispatched[i]) : dispatched[i][j] # "\n"
    /\ exited => (dispatched # <<>> /\ Undecodable(dispatched[Len(dispatched)]))

\* a line came in two chunks, after an empty line, and was dispatched once
C30_Witness ==
    /\ chunks = << <<"\n", "a">>, <<"a", "\n">> >>
    /\ dispatched = << <<"a", "a">> >>
    /\ buffer = <<>>
    /\ ~exited

RECURSIVE Wire(_)
\* what process.stdout has carried once the first n writes are made
Wire(n) == IF n = 0 THEN <<>> ELSE Wire(n - 1) \o write(stdout[n])

RECURSIVE LinesOf(_)
\* the output cut at its newlines; the last element is what follows the
\* last newline
LinesOf(text) ==
    IF \A i \in 1..Len(text) : ~text[i].eol THEN <<text>>
    ELSE LET i == CHOOSE j \in 1..Len(text) :
                      text[j].eol /\ \A h \in 1..(j - 1) : ~text[h].eol
         IN  <<SubSeq(text, 1, i - 1)>> \o LinesOf(SubSeq(text, i + 1, Len(text)))

\* the envelope has the members of its kind
WholeEnvelope(e) ==
    CASE e.kind = "progress" -> Has(e, "relatedRequestId") /\ Has(e, "pct") /\ ~Has(e, "id")
      [] e.kind = "response" -> Has(e, "id") /\ Has(e, "result")
      [] e.kind = "error" -> Has(e, "id") /\ Has(e, "code") /\ Has(e, "message")
      [] OTHER -> FALSE

C32_EveryOutcomeClassified ==
    /\ [](\A k \in 1..Len(requests) :
             /\ Cardinality(Terminals(k)) <= 1
             /\ requests[k].done => Cardinality(Terminals(k)) = 1)
    /\ [][(exited' /\ exitCode' = EXIT_SOFTWARE_ERROR) =>
             UNCHANGED <<requests, stdout, calculationHistory, requestCount, input>>]_vars

\* a handler threw a JavaScript exception (no params to destructure), the
\* request was answered with an error envelope and the process runs
C32_Witness ==
    /\ ~exited
    /\ \E k \in 1..Len(requests) :
          /\ UnexpectedFault(requests[k].message)
          /\ requests[k].done
          /\ \E t \in Terminals(k) :
                stdout[t].kind = "error" /\ stdout[t].message \in RawExceptionTexts

\* C33: a request whose id is that of a request still in flight is rejected
\* and its handler does not run: it writes no notification, waits on no
\* timer, stores nothing, and the only envelope it gets is an error.
C33_InFlightIdReuseRejected ==
    \A k, j \in 1..Len(requests) :
        (k < j /\ requests[k].id = requests[j].id /\ ~requests[k].done) =>
            /\ requests[j].created = 0
            /\ requests[j].wait = 0
            /\ ProgressOf(j) = {}
            /\ \A t \in Terminals(j) : stdout[t].kind = "error"

\* what the server does: both handlers run, and the output carries a
\* response with the id while the first request with that id is unanswered
C33_SecondHandlerRan ==
    \E k, j \in 1..Len(requests) :
        /\ k < j /\ requests[k].id = requests[j].id /\ ~requests[k].done
        /\ \E t \in Terminals(j) : stdout[t].kind = "response"

\* the line is JSON with jsonrpc "2.0" and has no method, or an empty one
MissingDiscriminant(line) ==
    /\ ~line.blank /\ line.json
    /\ Has(line.msg, "jsonrpc") /\ line.msg.jsonrpc = "2.0"
    /\ ~Truthy(line.msg, "method")

\* C34: a line that is JSON with jsonrpc "2.0" and has no method (a stray
\* response, an empty method) is malformed: once the server has come to it,
\* the process has exited with code 65.
C34_MissingDiscriminantIsFatal ==
    \A j \in 1..Len(input) :
        (MissingDiscriminant(input[j]) /\ Processed(j)) =>
            (exited /\ exitCode = EXIT_DATA_ERROR)

\* what the server does: the line is skipped and the request behind it is
\* answered
C34_StrayLineIgnored ==
    \E j \in 1..Len(input) :
        /\ MissingDiscriminant(input[j])
        /\ ~exited
        /\ \E h \in (j + 1)..Len(input) : IsRequestLine(input[h])
        /\ \E n \in 1..Len(stdout) : stdout[n].kind = "response"

\* an empty method is skipped in the same way
C34_EmptyMethodIgnored ==
    \E j \in 1..Len(input) :
        /\ MissingDiscriminant(input[j]) /\ Has(input[j].msg, "method")
        /\ ~exited /\ requests = <<>> /\ stdout = <<>>

\* what call c of connect did
CallEvents(c) == SelectSeq(clientLog, LAMBDA e : e.call = c)

Ended(ev) == ev # <<>> /\ ev[Len(ev)].kind \in {"connected", "threw"}

\* call c kept to the retry bound
BoundedCall(c) ==
    LET ev == CallEvents(c)
    IN  /\ Cardinality({i \in 1..Len(ev) : ev[i].kind = "attempt"}) <= maxRetries
        /\ \A i \in 1..Len(ev) :
              /\ ev[i].kind \in {"connected", "threw"} => i = Len(ev)
              /\ ev[i].kind = "connected" =>
                    (i > 1 /\ ev[i - 1].kind = "attempt" /\ ev[i].connected)
              /\ ev[i].kind = "failed" =>
                    /\ i < Len(ev)
                    /\ ev[i].n <= maxRetries
                    /\ IF ev[i].n < maxRetries
                       THEN ev[i + 1].kind = "wait" /\ ev[i + 1].n = retryDelays[ev[i].n]
                       ELSE ev[i + 1].kind = "threw"
              /\ ev[i].kind = "wait" => (i < Len(ev) => ev[i + 1].kind = "attempt")
              /\ ev[i].kind = "threw" => ev[i].connected = ev[1].connected

\* the call made on a new client: its k-th failure is failure k of the
\* client, so the waits are 1000 ms and 2000 ms and the third failure throws
\* with connected false
FirstCall ==
    LET ev == CallEvents(1)
        failures == {i \in 1..Len(ev) : ev[i].kind = "failed"}
    IN  /\ \A i \in failures :
              /\ ev[i].n = Cardinality({h \in failures : h <= i})
              /\ ~ev[i].connected
              /\ ev[i].n = 1 => (ev[i + 1].kind = "wait" /\ ev[i + 1].n = 1000)
              /\ ev[i].n = 2 => (ev[i + 1].kind = "wait" /\ ev[i + 1].n = 2000)
              /\ ev[i].n = 3 => (ev[i + 1].kind = "threw" /\ ~ev[i + 1].connected)
        /\ \A i \in 1..Len(ev) :
              ev[i].kind = "threw" => Cardinality(failures) = maxRetries

\* C35: connect makes at most 3 attempts; it returns as soon as an attempt
\* succeeds, with connected true; on a new client it waits 1000 ms after the
\* first failure and 2000 ms after the second, and after the third failure
\* it throws without a further wait and with connected still false; a call
\* of connect always comes to its end.
C35_ConnectRetryBound ==
    /\ [](/\ \A c \in 1..connectCalls : BoundedCall(c)
          /\ FirstCall
          /\ retryCount <= maxRetries
          /\ clientPc = "idle" => \A c \in 1..connectCalls : Ended(CallEvents(c)))
    /\ (clientPc # "idle") ~> (clientPc = "idle")

\* the call on a new client failed three times, waited twice and threw
C35_Witness ==
    LET ev == CallEvents(1)
    IN  /\ Len(ev) = 9
        /\ ev[3].kind = "wait" /\ ev[3].n = 1000
        /\ ev[6].kind = "wait" /\ ev[6].n = 2000
        /\ ev[8].kind = "failed" /\ ev[9].kind = "threw"
        /\ ~connected /\ clientPc = "idle"

\* C36: when the process has exited with code 65 on a malformed line, every
\* request line that stands before that line in the input, in the same chunk
\* or in an earlier one, has its response on the output.
C36_ResponsesSurviveMalformedLine ==
    \A j \in 1..Len(input) :
        (FirstMalformed(j) /\ exited /\ exitCode = EXIT_DATA_ERROR) =>
            /\ Len(requests) = Cardinality({h \in 1..(j - 1) : IsRequestLine(input[h])})
            /\ \A k \in 1..Len(requests) : Terminals(k) # {}

\* what the server does with a calculate and a malformed line of one chunk:
\* the calculation is made and stored, the process exits with 65 and the
\* output is empty
C36_ResponseLost ==
    /\ Len(input) = 2
    /\ IsRequestLine(input[1]) /\ PlainCalculate(input[1].msg)
    /\ Malformed(input[2])
    /\ exited /\ exitCode = EXIT_DATA_ERROR
    /\ Len(requests) = 1 /\ requests[1].created = 1
    /\ stdout = <<>>

\* the requests answered before the first await of handleRequest are not lost
C36_SynchronousAnswersSurvive ==
    \A j \in 1..Len(input) :
        (FirstMalformed(j) /\ exited /\ exitCode = EXIT_DATA_ERROR) =>
            \A k \in 1..Len(requests) :
                requests[k].method \in PlaceholderTools \cup Prompts \cup {"read_resource"}
                    => Terminals(k) # {}

\* the number of newlines of a text
Newlines(text) == Cardinality({i \in 1..Len(text) : text[i] = "\n"})

\* C37: when the input ends, what follows the last newline is dropped: it is
\* never handed to the decoder, so no handler runs for it, nothing is
\* counted, stored or written for it, and the process exits with code 0,
\* also when the fragment is no JSON text.
C37_UnterminatedLastLineDropped ==
    EndedByInputEnd =>
        LET all == Concat(chunks)
            lines == split(all)
        IN  /\ exitCode = EXIT_SUCCESS
            /\ buffer = lines[Len(lines)]
            /\ Len(dispatched) <= Newlines(all)
            /\ dispatched = frameLines(SubSeq(lines, 1, Len(lines) - 1), 1, <<>>).handed
            /\ requests = <<>> /\ requestCount = 0
            /\ calculationHistory = <<>> /\ stdout = <<>>

\* the input ended behind a whole line and a fragment that is no JSON text
C37_Witness ==
    /\ EndedByInputEnd
    /\ exitCode = EXIT_SUCCESS
    /\ Concat(chunks) = <<"a", "\n", "x">>
    /\ dispatched = << <<"a">> >>
    /\ buffer = <<"x">>

\* the methods whose handlers call calculationHistory.set
HistoryWriters == {"calculate", "batch_calculate", "advanced_calculate"}

\* C38: reading a resource, asking for a prompt and calling an unknown method
\* leave the history as it is: a request of another method than calculate,
\* batch_calculate and advanced_calculate creates no entry, and the history
\* changes only in a step in which a request of one of these three methods
\* is dispatched or resumes after a timer.
C38_ReadOnlyOnHistory ==
    /\ [](\A k \in 1..Len(requests) :
             requests[k].method \notin HistoryWriters => requests[k].created = 0)
    /\ [][calculationHistory' # calculationHistory =>
             \E k \in 1..Len(requests') :
                 /\ requests'[k].method \in HistoryWriters
                 /\ (k > Len(requests) \/ requests'[k] # requests[k])]_vars

\* a stored calculation was read through its history address and the one
\* entry is still in the history
C38_Witness ==
    /\ Len(calculationHistory) = 1
    /\ Len(requests) = 2
    /\ requests[1].method = "calculate" /\ requests[1].created = 1 /\ requests[1].done
    /\ requests[2].method = "read_resource"
    /\ \E t \in Terminals(2) : stdout[t].kind = "response"
    /\ ~exited

\* the SDK server likewise: listing the history and reading an entry leave
\* the history and the request counter alone
C38_SdkResourcesReadOnly ==
    [][(SdkListHistory \/ SdkReadHistory) => UNCHANGED <<sdkHistory, sdkRequestCount>>]_vars

====
